---- MODULE Spec2Model ----
(***************************************************************************)
(* A model of the trading-journal backend: the in-memory store             *)
(* (MockDatabase, src/mock-db.js:5-184), the relational store reached      *)
(* through the connection pool, and the Express request handlers           *)
(* (src/mock-db.js:339-1251) that sit on top of either of them.            *)
(*                                                                         *)
(* JavaScript objects are records whose DOMAIN is the set of keys the      *)
(* object has; reading a missing key gives Undefined, as in JavaScript.    *)
(* Relational rows are records too, a table is the sequence of its rows in *)
(* insertion order.                                                        *)
(***************************************************************************)
EXTENDS Integers, Sequences, FiniteSets, TLC

VARIABLES
    variant,      \* USE_MOCK_DB, fixed at process start: "mock" or "sql"
    users,        \* mockDb.users / the users table
    trades,       \* mockDb.trades / the trades table
    tokens,       \* the claims of the session tokens clients can hold
    registering,  \* Register requests suspended in `await bcrypt.hash`
    nextUuid,     \* how many randomUUID() values the running process drew
    deleting,     \* relational DELETE /api/users/:id requests between their
                  \* two statements: the ids they are deleting
    now,          \* the server's clock, in days since the process started
    held,         \* how many connections are out of the pool
    inFlight,     \* per kind of operation, how many hold a connection and
                  \* have not finished (DELETE user requests are in `deleting`)
    writes        \* how many PATCH / DELETE requests changed a store so far

vars == <<variant, users, trades, tokens, registering, nextUuid, deleting, now,
          held, inFlight, writes>>

----------------------------------------------------------------------------
(* Bounds of the model *)

\* demo students seeded besides admin-001 and student-001 (the code seeds 5)
DemoStudents == 1
\* trades seeded per demo student (the code seeds 20)
SeedTrades == 1
\* randomUUID() draws of the running process (Register, Create Trade)
MaxUuid == 2
\* PATCH and DELETE requests that change a store
MaxWrites == 2
\* Register requests suspended in bcrypt.hash at the same time
MaxRegistering == 2
\* trades in the store (the model sends no Create Trade beyond it)
MaxTrades == 2
\* relational DELETE /api/users/:id requests between their two statements
MaxDeleting == 1
\* the last day the clock reaches
MaxNow == 9
\* operations of one kind that hold a connection at the same time
MaxInFlight == 1

\* connectionLimit of mysql.createPool
connectionLimit == 10

\* The kinds of operation that take one connection with
\* `await pool.getConnection()` and finish by one of their exits.
Operations ==
    {"handler", "dbOps", "ensureTradeColumns", "retentionJob", "health"}

\* how an operation of each kind can finish once it holds its connection.
\* Only the request handlers return early (400 / 403 / 404) inside their try
\* block; "exception" in /api/health is a rejected connection.ping().
Exits(op) ==
    IF op = "handler" THEN {"success", "early return", "exception"}
    ELSE {"success", "exception"}

\* does the operation call connection.release() on this exit: the handlers,
\* the dbOps operations, ensureTradeColumns and the cron callback release in
\* a finally block; /api/health releases on the line after the ping
Releases(op, exit) == ~(op = "health" /\ exit = "exception")

\* INTERVAL 7 DAY of the image cleanup
RetentionDays == 7

----------------------------------------------------------------------------
(* Values *)

\* the JavaScript value undefined (no request carries this string)
Undefined == "<undefined>"

\* the JavaScript value null / the SQL value NULL
Null == "<null>"

DemoIds == <<"student-002", "student-003", "student-004">>
DemoNames == <<"Alice Trader", "Bob Trader", "Carol Trader">>
DemoEmails == <<"alice@example.com", "bob@example.com", "carol@example.com">>
Assets == <<"EURUSD", "GBPUSD", "XAUUSD", "BTCUSD", "AAPL">>
SeedTradeIds == <<"seed-1", "seed-2", "seed-3", "seed-4", "seed-5", "seed-6",
                  "seed-7", "seed-8", "seed-9">>
Uuids == <<"uuid-1", "uuid-2", "uuid-3", "uuid-4", "uuid-5">>

\* bcrypt.hash / bcrypt.hashSync: a digest that bcrypt.compare accepts for
\* the password it was made from and for no other
Hash(p) == "$2a$10$" \o p

\* bcrypt.compare(password, hash)
Compare(p, h) == h = Hash(p)

\* obj[key] of a JavaScript object
Get(obj, key) == IF key \in DOMAIN obj THEN obj[key] ELSE Undefined

\* a JavaScript value that is truthy: the model's values are strings and
\* non-zero numbers, so only a missing one is falsy
Truthy(obj, key) == key \in DOMAIN obj

\* { ...obj, ...updates }
Merge(obj, updates) ==
    [k \in DOMAIN obj \cup DOMAIN updates |->
        IF k \in DOMAIN updates THEN updates[k] ELSE obj[k]]

\* the object with only the keys in ks (a SELECT column list, a literal)
Pick(obj, ks) == [k \in ks \cap DOMAIN obj |-> obj[k]]

\* Array.prototype.filter on one property: the elements whose key is value
Filter(s, key, value) ==
    LET keep(x) == Get(x, key) = value IN SelectSeq(s, keep)

\* Array.prototype.findIndex on one property, 1-based; 0 when nothing
\* matches
FindIndex(s, key, value) ==
    IF \E i \in 1..Len(s) : Get(s[i], key) = value
    THEN CHOOSE i \in 1..Len(s) :
             /\ Get(s[i], key) = value
             /\ \A j \in 1..(i - 1) : Get(s[j], key) # value
    ELSE 0

\* Array.prototype.splice(index, 1)
RemoveAt(s, i) == [j \in 1..(Len(s) - 1) |-> IF j < i THEN s[j] ELSE s[j + 1]]

\* the values of one property over an array, in order (`trade.id` of each
\* trade the cascade loop visits)
MapSeq(s, key) == [i \in 1..Len(s) |-> Get(s[i], key)]

\* ORDER BY created_at DESC over rows kept in insertion order
Reverse(s) == [i \in 1..Len(s) |-> s[Len(s) + 1 - i]]

----------------------------------------------------------------------------
(* The stores at process start *)

\* initializeDefaultData: a user object as the constructor pushes it, at
\* day 0 of the clock
SeedUser(id, name, email, password, role) ==
    [id |-> id, name |-> name, email |-> email,
     password_hash |-> Hash(password), role |-> role, status |-> "approved",
     created_at |-> 0, updated_at |-> 0]

\* makeTrade(userId, dayOffset, idx); prices in tenths, the id a fresh
\* randomUUID()
makeTrade(userId, dayOffset, idx) ==
    [id |-> SeedTradeIds[idx + 1], userId |-> userId, user_id |-> userId,
     asset |-> Assets[(idx % Len(Assets)) + 1],
     direction |-> IF idx % 2 = 0 THEN "long" ELSE "short",
     entry |-> 1000 + idx * 5, sl |-> 1000 + idx * 5 - 3,
     status |-> IF idx % 4 = 0 THEN "reviewed" ELSE "pending",
     chart_before_url |-> Null, chart_after_url |-> Null,
     created_at |-> 0 - dayOffset, updated_at |-> 0 - dayOffset]

MockSeedUsers ==
    <<SeedUser("admin-001", "Admin User", "admin@example.com", "admin123", "admin"),
      SeedUser("student-001", "Student User", "student@example.com",
               "student123", "student")>>
    \o [s \in 1..DemoStudents |->
          SeedUser(DemoIds[s], DemoNames[s], DemoEmails[s], "student123", "student")]

MockSeedTrades ==
    [n \in 1..(DemoStudents * SeedTrades) |->
        makeTrade(DemoIds[((n - 1) \div SeedTrades) + 1],
                  (n - 1) % SeedTrades, n - 1)]

\* The relational store outlives the process.  The model starts it with the
\* admin row that hash-password.js prints and with what earlier requests
\* left: two students that registered and were approved, and one trade of
\* the second one (rows as Register and Create Trade insert them).
SqlSeedUsers ==
    <<[id |-> "admin-001", name |-> "Admin", email |-> "admin@trader.com",
       password_hash |-> Hash("admin1234"), role |-> "admin", status |-> "active",
       created_at |-> 0, updated_at |-> 0],
      SeedUser("student-001", "Student User", "student@example.com",
               "student123", "student"),
      SeedUser("student-002", "Alice Trader", "alice@example.com",
               "student123", "student")>>

SqlSeedTrades ==
    <<[id |-> "seed-1", user_id |-> "student-002", asset |-> "EURUSD",
       direction |-> "long", entry |-> 100, sl |-> 99, status |-> "pending",
       chart_before_url |-> Null, chart_after_url |-> Null,
       created_at |-> 0, updated_at |-> 0]>>

----------------------------------------------------------------------------
(* What a handler did: the HTTP status and body it answered, whether it    *)
(* took a connection from the pool, how many store operations it issued    *)
(* (mockDb calls, connection.query calls), and the stores it left.         *)

Result(status, conn, ops, out, us, ts) ==
    [status |-> status, conn |-> conn, ops |-> ops, out |-> out,
     users |-> us, trades |-> ts]

IsMock == variant = "mock"

\* generateToken(userId, email, role): the claims jwt.sign signs
generateToken(userId, email, role) ==
    [userId |-> userId, email |-> email, role |-> role]

\* parseInt(req.query[key]) || dflt: NaN and 0 are both falsy
ParseInt(str) ==
    CASE str = "1" -> 1
      [] str = "2" -> 2
      [] str = "3" -> 3
      [] str = "-1" -> -1
      [] str = "50" -> 50
      [] OTHER -> 0

ParseIntOr(query, key, dflt) ==
    IF key \notin DOMAIN query THEN dflt
    ELSE IF ParseInt(query[key]) = 0 THEN dflt ELSE ParseInt(query[key])

\* Array.prototype.slice(start, end)
Slice(s, start, end) ==
    LET n == Len(s)
        clamp(k) == IF k < 0 THEN (IF n + k < 0 THEN 0 ELSE n + k)
                    ELSE (IF k > n THEN n ELSE k)
        from == clamp(start)
        to == clamp(end)
    IN  IF from < to THEN SubSeq(s, from + 1, to) ELSE <<>>

\* Math.ceil(total / limit)
Ceil(total, limit) ==
    IF limit > 0 THEN (total + limit - 1) \div limit
    ELSE -(total \div (-limit))

\* pagination: { page, limit, total, totalPages }
Pagination(page, limit, total) ==
    [page |-> page, limit |-> limit, total |-> total,
     totalPages |-> Ceil(total, limit)]

----------------------------------------------------------------------------
(* MockDatabase, src/mock-db.js:112-178, and the statements of the         *)
(* relational branches                                                     *)

\* MockDatabase.findUserByEmail / SELECT ... FROM users WHERE email = ?
\* (the handlers take row 0): the index of the first match, 0 when none
findUserByEmail(us, email) == FindIndex(us, "email", email)

\* MockDatabase.createUser
createUser(us, userData) == Append(us, userData)

\* MockDatabase.updateUser: the array after the call
updateUser(us, id, updates) ==
    LET index == FindIndex(us, "id", id)
    IN  IF index = 0 THEN us
        ELSE [us EXCEPT ![index] = Merge(us[index], updates)]

\* MockDatabase.deleteUser / MockDatabase.deleteTrade: the array after the
\* call (findIndex by id, splice)
deleteById(arr, id) ==
    LET index == FindIndex(arr, "id", id)
    IN  IF index = 0 THEN arr ELSE RemoveAt(arr, index)

\* does an object with this id exist (findIndex(...) !== -1, find(...))
hasId(arr, id) == \E i \in 1..Len(arr) : Get(arr[i], "id") = id

\* MockDatabase.getTradeById: the index of the first match, 0 when none
getTradeById(ts, id) == FindIndex(ts, "id", id)

\* MockDatabase.createTrade
createTrade(ts, tradeData) == Append(ts, tradeData)

\* MockDatabase.updateTrade: the array after the call
updateTrade(ts, id, updates) ==
    LET index == getTradeById(ts, id)
    IN  IF index = 0 THEN ts
        ELSE [ts EXCEPT ![index] = Merge(ts[index], updates)]

\* MockDatabase.deleteUser / MockDatabase.deleteTrade: the boolean returned
\* and the array left
mockDelete(arr, id) ==
    [returned |-> FindIndex(arr, "id", id) # 0, left |-> deleteById(arr, id)]

\* UPDATE <table> SET ... WHERE id = ?
sqlUpdate(rows, id, sets) ==
    [i \in 1..Len(rows) |->
        IF rows[i].id = id THEN Merge(rows[i], sets) ELSE rows[i]]

\* DELETE FROM <table> WHERE <column> = ?
sqlDelete(rows, column, value) ==
    LET keep(r) == r[column] # value IN SelectSeq(rows, keep)

\* result.affectedRows / rows.length of a statement with WHERE <column> = ?
sqlMatches(rows, column, value) ==
    Cardinality({i \in 1..Len(rows) : rows[i][column] = value})

\* dbOps.updateUser: whether it returned a record (null only from the
\* in-memory branch, for an absent id) and the collection left
dbOpsUpdateUser(us, id, updates) ==
    IF IsMock
    THEN [found |-> hasId(us, id),
          left |-> updateUser(us, id, Merge(updates, [updated_at |-> now]))]
    ELSE [found |-> TRUE,
          left |-> sqlUpdate(us, id, Merge(updates, [updated_at |-> now]))]

\* the columns of the trades table, as the INSERT of POST /api/trades names
\* them
TradeColumns ==
    {"id", "user_id", "asset", "direction", "entry", "sl", "tp", "exit",
     "status", "strategy", "emotion", "planned_r", "actual_r", "display_unit",
     "chart_before_url", "chart_after_url", "reviewed_by", "created_at",
     "updated_at"}

\* dbOps.updateTrade: the keys of `updates` go into the SET list as they
\* are, followed by updated_at.  The relational branch rejects (failed) when
\* a key is no column of the table, and returns { id, ...updates } otherwise.
dbOpsUpdateTrade(ts, id, updates) ==
    IF IsMock
    THEN [failed |-> FALSE, found |-> hasId(ts, id),
          left |-> updateTrade(ts, id, Merge(updates, [updated_at |-> now]))]
    ELSE IF ~(DOMAIN updates \subseteq TradeColumns)
    THEN [failed |-> TRUE, found |-> FALSE, left |-> ts]
    ELSE [failed |-> FALSE, found |-> TRUE,
          left |-> sqlUpdate(ts, id, Merge(updates, [updated_at |-> now]))]

\* dbOps.deleteUser / dbOps.deleteTrade: the value returned and the
\* collection left.  The relational branch returns true after the DELETE
\* whatever it matched.
dbOpsDelete(arr, id) ==
    IF IsMock THEN mockDelete(arr, id)
    ELSE [returned |-> TRUE, left |-> sqlDelete(arr, "id", id)]

----------------------------------------------------------------------------
(* The request handlers, src/mock-db.js:356-1251.  Each is the function    *)
(* from the request and the stores to the handler's Result.                *)

\* POST /api/auth/register, up to `await bcrypt.hash`: status 0 means the
\* handler passed both checks and goes on to hash the password
registerCheck(body) ==
    IF ~Truthy(body, "name") \/ ~Truthy(body, "email") \/ ~Truthy(body, "password")
    THEN Result(400, FALSE, 0, [error |-> "Missing required fields"], users, trades)
    ELSE IF findUserByEmail(users, body.email) # 0
    THEN Result(400, ~IsMock, 1, [error |-> "Email already registered"], users, trades)
    ELSE Result(0, ~IsMock, 1, <<>>, users, trades)

\* POST /api/auth/register storing the role and the status of the body
registerInsertAsAsked(body, userId) ==
    LET userData == [id |-> userId, name |-> body.name, email |-> body.email,
                     password_hash |-> Hash(body.password),
                     role |-> IF Truthy(body, "role") THEN body.role ELSE "student",
                     status |-> IF Truthy(body, "status") THEN body.status
                                ELSE "pending",
                     created_at |-> now, updated_at |-> now]
    IN  Result(200, ~IsMock, 2,
               IF IsMock THEN [message |-> "Registration successful", userId |-> userId]
               ELSE [message |-> "Registration successful"],
               createUser(users, userData), trades)

\* POST /api/auth/register, from the resolved hash on: the insert and the
\* answer (the relational branch does not return the userId)
registerInsert(body, userId) ==
    LET userData == [id |-> userId, name |-> body.name, email |-> body.email,
                     password_hash |-> Hash(body.password),
                     role |-> "student", status |-> "pending",
                     created_at |-> now, updated_at |-> now]
    IN  Result(200, ~IsMock, 2,
               IF IsMock THEN [message |-> "Registration successful", userId |-> userId]
               ELSE [message |-> "Registration successful"],
               createUser(users, userData), trades)

\* POST /api/auth/login with the status looked at before the password
loginOnStatusFirst(us, body) ==
    IF ~Truthy(body, "email") \/ ~Truthy(body, "password")
    THEN Result(400, FALSE, 0, [error |-> "Email and password required"], us, trades)
    ELSE LET index == findUserByEmail(us, body.email) IN
    IF index = 0
    THEN Result(401, ~IsMock, 1, [code |-> "auth/user-not-found"], us, trades)
    ELSE LET user == us[index] IN
    IF user.status = "pending"
    THEN Result(403, ~IsMock, 1,
                [code |-> "auth/pending-approval",
                 user |-> Pick(user, {"id", "email", "name"})], us, trades)
    ELSE IF ~Compare(body.password, user.password_hash)
    THEN Result(401, ~IsMock, 1, [code |-> "auth/wrong-password"], us, trades)
    ELSE Result(200, ~IsMock, 1,
                [token |-> generateToken(user.id, user.email, user.role),
                 user |-> Pick(user, {"id", "email", "name", "role", "status"})],
                us, trades)

\* POST /api/auth/login against the users `us`
loginOn(us, body) ==
    IF ~Truthy(body, "email") \/ ~Truthy(body, "password")
    THEN Result(400, FALSE, 0, [error |-> "Email and password required"], us, trades)
    ELSE LET index == findUserByEmail(us, body.email) IN
    IF index = 0
    THEN Result(401, ~IsMock, 1, [code |-> "auth/user-not-found"], us, trades)
    ELSE LET user == us[index] IN
    IF ~Compare(body.password, user.password_hash)
    THEN Result(401, ~IsMock, 1, [code |-> "auth/wrong-password"], us, trades)
    ELSE IF user.status = "pending"
    THEN Result(403, ~IsMock, 1,
                [code |-> "auth/pending-approval",
                 user |-> Pick(user, {"id", "email", "name"})], us, trades)
    ELSE Result(200, ~IsMock, 1,
                [token |-> generateToken(user.id, user.email, user.role),
                 user |-> Pick(user, {"id", "email", "name", "role", "status"})],
                us, trades)

\* POST /api/auth/login
login(body) == loginOn(users, body)

\* a list endpoint that counts pages from 0
ListBodyFromZero(list, query) ==
    LET page == ParseIntOr(query, "page", 1)
        limit == ParseIntOr(query, "limit", 50)
        offset == page * limit
    IN  IF ~(Truthy(query, "page") \/ Truthy(query, "limit"))
        THEN [paginated |-> FALSE, items |-> list]
        ELSE [paginated |-> TRUE, items |-> Slice(list, offset, offset + limit),
              pagination |-> Pagination(page, limit, Len(list))]

\* what a list endpoint answers with: the bare array, or a page of it
\* (`users` / `trades`, here `items`) with the pagination envelope
ListBody(list, query) ==
    LET page == ParseIntOr(query, "page", 1)
        limit == ParseIntOr(query, "limit", 50)
        offset == (page - 1) * limit
    IN  IF ~(Truthy(query, "page") \/ Truthy(query, "limit"))
        THEN [paginated |-> FALSE, items |-> list]
        ELSE [paginated |-> TRUE, items |-> Slice(list, offset, offset + limit),
              pagination |-> Pagination(page, limit, Len(list))]

\* GET /api/users: the rows the branch reads before pagination
usersListed(query) ==
    LET byStatus == IF Truthy(query, "status")
                    THEN Filter(users, "status", query.status)
                    ELSE users
        byRole == IF Truthy(query, "role")
                  THEN Filter(byStatus, "role", query.role)
                  ELSE byStatus
    IN  IF IsMock THEN byRole
        ELSE Reverse([i \in 1..Len(byRole) |->
                 Pick(byRole[i], {"id", "name", "email", "role", "status", "created_at"})])

\* GET /api/users
getUsers(tok, query) ==
    IF tok.role \notin {"admin", "coach"}
    THEN Result(403, FALSE, 0, [error |-> "Admin or coach only"], users, trades)
    ELSE LET body == ListBody(usersListed(query), query) IN
         Result(200, ~IsMock,
                IF IsMock THEN 1 ELSE IF body.paginated THEN 2 ELSE 1,
                body, users, trades)

\* PATCH /api/users/:id: the `updates` built from the body
userUpdates(body) ==
    LET hashed == IF Truthy(body, "password")
                  THEN [password_hash |-> Hash(body.password)] ELSE <<>>
    IN  Merge(Pick(body, {"role", "status"}), hashed)

\* PATCH /api/users/:id
patchUser(tok, id, body) ==
    IF tok.role # "admin"
    THEN Result(403, FALSE, 0, [error |-> "Admin only"], users, trades)
    ELSE IF DOMAIN userUpdates(body) = {}
    THEN Result(400, ~IsMock, 0, [error |-> "No fields to update"], users, trades)
    ELSE IF IsMock
    THEN IF ~hasId(users, id)
         THEN Result(404, FALSE, 1, [error |-> "User not found"], users, trades)
         ELSE Result(200, FALSE, 1, [message |-> "User updated successfully"],
                     updateUser(users, id, userUpdates(body)), trades)
    ELSE IF sqlMatches(users, "id", id) = 0
         THEN Result(404, TRUE, 1, [error |-> "User not found"], users, trades)
         ELSE Result(200, TRUE, 1, [message |-> "User updated successfully"],
                     sqlUpdate(users, id,
                               Merge(userUpdates(body), [updated_at |-> now])),
                     trades)

\* DELETE /api/users/:id, mock branch: `for (const trade of snapshot)
\* await mockDb.deleteTrade(trade.id)` over the ids of the snapshot's trades
RECURSIVE deleteEach(_, _)
deleteEach(ts, ids) ==
    IF ids = <<>> THEN ts
    ELSE deleteEach(deleteById(ts, Head(ids)), Tail(ids))

\* DELETE /api/users/:id: the trades it leaves
cascadeTrades(id) ==
    IF IsMock
    THEN deleteEach(trades,
             MapSeq(Filter(trades, "userId", id), "id"))
    ELSE sqlDelete(trades, "user_id", id)

\* DELETE /api/users/:id
deleteUser(tok, id) ==
    IF tok.role # "admin"
    THEN Result(403, FALSE, 0, [error |-> "Admin only"], users, trades)
    ELSE LET ops == IF IsMock
                    THEN 2 + Len(Filter(trades, "userId", id))
                    ELSE 2
         IN  IF ~hasId(users, id)
             THEN Result(404, ~IsMock, ops, [error |-> "User not found"],
                         users, cascadeTrades(id))
             ELSE Result(200, ~IsMock, ops, [message |-> "User deleted successfully"],
                         IF IsMock THEN deleteById(users, id)
                         ELSE sqlDelete(users, "id", id),
                         cascadeTrades(id))

\* the trade deletions of DELETE /api/users/:id: the ids the mock loop passes
\* to mockDb.deleteTrade one by one; the one statement of the relational
\* branch
cascadeSteps(id) ==
    IF IsMock THEN MapSeq(Filter(trades, "userId", id), "id") ELSE <<id>>

\* DELETE /api/users/:id when the failAt-th trade deletion throws: the
\* deletions before it stay, the catch answers 500 and the handler returns
deleteUserFailing(tok, id, failAt) ==
    IF tok.role # "admin"
    THEN Result(403, FALSE, 0, [error |-> "Admin only"], users, trades)
    ELSE Result(500, ~IsMock, IF IsMock THEN 1 + failAt ELSE 1,
                [error |-> "trade delete failed"], users,
                IF IsMock
                THEN deleteEach(trades, SubSeq(cascadeSteps(id), 1, failAt - 1))
                ELSE trades)

\* GET /api/trades without the student's owner filter
tradesListedUnfiltered(tok, query) ==
    LET byStatus == IF Truthy(query, "status")
                    THEN Filter(trades, "status", query.status)
                    ELSE trades
    IN  IF IsMock THEN byStatus ELSE Reverse(byStatus)

\* GET /api/trades: the rows the branch reads before pagination
tradesListed(tok, query) ==
    LET owner == IF IsMock THEN "userId" ELSE "user_id"
        own == IF tok.role = "student"
               THEN Filter(trades, owner, tok.userId)
               ELSE trades
        byStatus == IF Truthy(query, "status")
                    THEN Filter(own, "status", query.status)
                    ELSE own
    IN  IF IsMock THEN byStatus ELSE Reverse(byStatus)

\* GET /api/trades
getTrades(tok, query) ==
    LET body == ListBody(tradesListed(tok, query), query) IN
    Result(200, ~IsMock,
           IF IsMock THEN 1 ELSE IF body.paginated THEN 3 ELSE 2,
           body, users, trades)

\* POST /api/trades: the object handed to mockDb.createTrade
\* req.body.chart_before_url ?? req.body.chartBeforeUrl ?? null
chartOf(body, snake, camel) ==
    IF snake \in DOMAIN body THEN body[snake]
    ELSE IF camel \in DOMAIN body THEN body[camel] ELSE Null

mockTradeData(tok, body) ==
    [userId |-> tok.userId, asset |-> body.asset, direction |-> body.direction,
     entry |-> body.entry, sl |-> body.sl,
     status |-> IF Truthy(body, "status") THEN body.status ELSE "pending",
     chartBeforeUrl |-> chartOf(body, "chart_before_url", "chartBeforeUrl"),
     chartAfterUrl |-> chartOf(body, "chart_after_url", "chartAfterUrl")]

\* POST /api/trades: the row of the INSERT, which is also the answer
sqlTradeRow(tok, body, tradeId) ==
    [id |-> tradeId, user_id |-> tok.userId, asset |-> body.asset,
     direction |-> body.direction, entry |-> body.entry, sl |-> body.sl,
     status |-> IF Truthy(body, "status") THEN body.status ELSE "pending",
     chart_before_url |-> chartOf(body, "chart_before_url", "chartBeforeUrl"),
     chart_after_url |-> chartOf(body, "chart_after_url", "chartAfterUrl"),
     created_at |-> now, updated_at |-> now]

\* POST /api/trades without the role check
postTradeAnyRole(tok, body, tradeId) ==
    IF \E k \in {"asset", "direction", "entry", "sl"} : ~Truthy(body, k)
    THEN Result(400, FALSE, 0, [error |-> "Missing required fields"], users, trades)
    ELSE IF IsMock
    THEN Result(201, FALSE, 1, mockTradeData(tok, body),
                users, createTrade(trades, mockTradeData(tok, body)))
    ELSE Result(201, TRUE, 1, sqlTradeRow(tok, body, tradeId),
                users, Append(trades, sqlTradeRow(tok, body, tradeId)))

\* POST /api/trades
postTrade(tok, body, tradeId) ==
    IF tok.role # "student"
    THEN Result(403, FALSE, 0, [error |-> "Students only"], users, trades)
    ELSE IF \E k \in {"asset", "direction", "entry", "sl"} : ~Truthy(body, k)
    THEN Result(400, FALSE, 0, [error |-> "Missing required fields"], users, trades)
    ELSE IF IsMock
    THEN Result(201, FALSE, 1, mockTradeData(tok, body),
                users, createTrade(trades, mockTradeData(tok, body)))
    ELSE Result(201, TRUE, 1, sqlTradeRow(tok, body, tradeId),
                users, Append(trades, sqlTradeRow(tok, body, tradeId)))

\* PATCH /api/trades/:id: columnMap[key] || key
columnMap(key) ==
    CASE key = "userId" -> "user_id"
      [] key = "createdAt" -> "created_at"
      [] key = "updatedAt" -> "updated_at"
      [] key = "plannedR" -> "planned_r"
      [] key = "actualR" -> "actual_r"
      [] key = "displayUnit" -> "display_unit"
      [] key = "exit" -> "exit"    \* written escaped, the same column
      [] key = "date" -> "created_at"
      [] key = "reviewedBy" -> "reviewed_by"
      [] key = "chartBeforeUrl" -> "chart_before_url"
      [] key = "chartAfterUrl" -> "chart_after_url"
      [] OTHER -> key

\* PATCH /api/trades/:id: the keys the relational branch refuses to write
blockedFields ==
    {"createdAt", "created_at", "updatedAt", "updated_at",
     "userId", "user_id", "id", "date"}

\* PATCH /api/trades/:id: the SET list of the UPDATE, column |-> value
sqlTradeSets(body) ==
    LET keys == DOMAIN body \ blockedFields
    IN  [c \in {columnMap(k) : k \in keys} |->
            body[CHOOSE k \in keys : columnMap(k) = c]]

\* an ownership check that lets every caller through
mayTouchAnyTrade(tok, trade) == tok.role \in {"student", "coach", "admin"}

\* does the caller pass the ownership check of PATCH / DELETE /api/trades/:id
\* on this trade
mayTouch(tok, trade) ==
    ~(tok.role = "student"
      /\ Get(trade, IF IsMock THEN "userId" ELSE "user_id") # tok.userId)

\* PATCH /api/trades/:id
patchTrade(tok, id, body) ==
    LET index == getTradeById(trades, id) IN
    IF index = 0
    THEN Result(404, ~IsMock, 1, [error |-> "Trade not found"], users, trades)
    ELSE IF ~mayTouch(tok, trades[index])
    THEN Result(403, ~IsMock, 1, [error |-> "Cannot modify other trades"], users, trades)
    ELSE IF IsMock
    THEN Result(200, FALSE, 2, Merge(trades[index], body),
                users, updateTrade(trades, id, body))
    ELSE IF DOMAIN sqlTradeSets(body) = {}
    THEN Result(400, TRUE, 1, [error |-> "No fields to update"], users, trades)
    ELSE Result(200, TRUE, 2, [message |-> "Trade updated"],
                users, sqlUpdate(trades, id,
                                 Merge(sqlTradeSets(body), [updated_at |-> now])))

\* DELETE /api/trades/:id
deleteTrade(tok, id) ==
    LET index == getTradeById(trades, id) IN
    IF index = 0
    THEN Result(404, ~IsMock, 1, [error |-> "Trade not found"], users, trades)
    ELSE IF ~mayTouch(tok, trades[index])
    THEN Result(403, ~IsMock, 1, [error |-> "Cannot delete other trades"], users, trades)
    ELSE Result(200, ~IsMock, 2, [message |-> "Trade deleted"], users,
                IF IsMock THEN deleteById(trades, id)
                ELSE sqlDelete(trades, "id", id))

\* GET /api/admin/storage-stats
storageStats(tok) ==
    IF tok.role # "admin"
    THEN Result(403, FALSE, 0, [error |-> "Admin only"], users, trades)
    ELSE Result(200, ~IsMock, IF IsMock THEN 0 ELSE 1,
                IF IsMock THEN [totalImages |-> 0]
                ELSE [totalTrades |-> Len(trades), retentionDays |-> 7],
                users, trades)

\* the image cleanup without the age condition
retentionJobAnyAge(rows, at) ==
    [i \in 1..Len(rows) |->
        IF rows[i].chart_before_url # Null \/ rows[i].chart_after_url # Null
        THEN [rows[i] EXCEPT !.chart_before_url = Null, !.chart_after_url = Null,
                             !.updated_at = at]
        ELSE rows[i]]

\* the image cleanup without the chart condition: every old row is stamped
retentionJobAnyChart(rows, at) ==
    [i \in 1..Len(rows) |->
        IF rows[i].created_at <= at - RetentionDays
        THEN [rows[i] EXCEPT !.chart_before_url = Null, !.chart_after_url = Null,
                             !.updated_at = at]
        ELSE rows[i]]

\* the UPDATE of the scheduled image cleanup, run at day `at`, over the rows
\* of the trades table
retentionJob(rows, at) ==
    [i \in 1..Len(rows) |->
        IF /\ rows[i].created_at <= at - RetentionDays
           /\ (rows[i].chart_before_url # Null \/ rows[i].chart_after_url # Null)
        THEN [rows[i] EXCEPT !.chart_before_url = Null, !.chart_after_url = Null,
                             !.updated_at = at]
        ELSE rows[i]]

NoToken == [userId |-> Undefined, email |-> Undefined, role |-> Undefined]

\* verifyToken: a request without a valid token is answered 401 and the
\* handler does not run
verifyToken(tok, handled) ==
    IF tok = NoToken
    THEN Result(401, FALSE, 0, [error |-> "No token provided"], users, trades)
    ELSE handled

\* the columns the ER_BAD_FIELD_ERROR fallbacks leave out
OptionalColumns == {"reviewed_by", "chart_before_url", "chart_after_url"}

\* The write statements of a handler with the ER_BAD_FIELD_ERROR fallback,
\* against a table that lacks the columns `missing`: `fields` are the
\* columns taken from the request, `stamps` the ones the handler adds.  The
\* first statement names them all; when it fails for a missing column the
\* handler drops the optional columns and, unless `mayBeEmpty` and nothing is
\* left, issues a second statement.  statements: how many were issued;
\* failed: an error was answered; noFields: it was "No fields to update";
\* written: the columns of the statement that succeeded.
writeWithFallback(fields, stamps, missing, mayBeEmpty) ==
    LET stripped == fields \ OptionalColumns IN
    IF (fields \cup stamps) \cap missing = {}
    THEN [statements |-> 1, failed |-> FALSE, noFields |-> FALSE,
          written |-> fields \cup stamps]
    ELSE IF mayBeEmpty /\ stripped = {}
    THEN [statements |-> 1, failed |-> TRUE, noFields |-> TRUE, written |-> {}]
    ELSE IF (stripped \cup stamps) \cap missing = {}
    THEN [statements |-> 2, failed |-> FALSE, noFields |-> FALSE,
          written |-> stripped \cup stamps]
    ELSE [statements |-> 2, failed |-> TRUE, noFields |-> FALSE, written |-> {}]

\* PATCH /api/trades/:id, relational branch: the UPDATE and its fallback
patchTradeWrite(body, missing) ==
    writeWithFallback(DOMAIN sqlTradeSets(body), {"updated_at"}, missing, TRUE)

\* POST /api/trades, relational branch: the INSERT and its fallback
postTradeWrite(missing) ==
    writeWithFallback(TradeColumns \ {"id", "user_id", "created_at", "updated_at"},
                      {"id", "user_id", "created_at", "updated_at"},
                      missing, FALSE)

\* dbOps.createTrade / dbOps.updateTrade, relational branch: one statement
\* inside try / finally, no catch
dbOpsWrite(fields, stamps, missing) ==
    IF (fields \cup stamps) \cap missing = {}
    THEN [statements |-> 1, failed |-> FALSE, noFields |-> FALSE,
          written |-> fields \cup stamps]
    ELSE [statements |-> 1, failed |-> TRUE, noFields |-> FALSE, written |-> {}]

\* What the client gets when pool.getConnection() rejects in a handler
\* that would otherwise have answered r.  insideTry: the handler awaits the
\* connection inside its try block, whose catch answers 500.  Every other
\* handler awaits it before the try, and the rejection leaves the async
\* handler: Express 4 never answers the request and the process takes an
\* unhandled rejection, Express 5 hands it to its default error handler,
\* which answers 500 with an HTML page.
poolFails(r, insideTry) ==
    IF ~r.conn
    THEN {[responded |-> TRUE, status |-> r.status, json |-> TRUE]}
    ELSE IF insideTry
    THEN {[responded |-> TRUE, status |-> 500, json |-> TRUE]}
    ELSE {[responded |-> FALSE, status |-> 0, json |-> FALSE],
          [responded |-> TRUE, status |-> 500, json |-> FALSE]}

\* What the client gets when a connection.query of the handler rejects:
\* every statement is inside the handler's try block
queryFails(r) ==
    IF ~r.conn
    THEN {[responded |-> TRUE, status |-> r.status, json |-> TRUE]}
    ELSE {[responded |-> TRUE, status |-> 500, json |-> TRUE]}

----------------------------------------------------------------------------
(* The requests the model sends *)

\* a registration that asks for a role and a status
PrivilegedRegister ==
    [name |-> "User", email |-> "new@example.com", password |-> "admin123",
     role |-> "admin", status |-> "approved"]

RegisterBodies ==
    {[name |-> "User", email |-> "new@example.com", password |-> "student123"],
     PrivilegedRegister,
     [name |-> "User", email |-> "student@example.com", password |-> "student123"],
     [name |-> "User", email |-> "new@example.com"]}

LoginBodiesOn(us) ==
    {[email |-> e, password |-> p] :
        e \in {us[i].email : i \in 1..Len(us)} \cup {"nobody@example.com"},
        p \in {"student123", "admin123", "admin1234"}}
    \cup {[email |-> "new@example.com"], [email |-> "student@example.com"],
          [password |-> "student123"]}

LoginBodies == LoginBodiesOn(users)

\* the claims of the tokens Login signs against the users `us`
Signable(us) ==
    {loginOn(us, body).out.token :
        body \in {b \in LoginBodiesOn(us) : loginOn(us, b).status = 200}}

\* the bearer tokens a client can present: a token signed so far (it stays
\* valid for 7 days), or none
Bearers == tokens \cup {NoToken}

UserIds ==
    {users[i].id : i \in 1..Len(users)} \cup {t.userId : t \in tokens}
    \cup {Get(trades[i], "userId") : i \in 1..Len(trades)}
    \cup {Get(trades[i], "user_id") : i \in 1..Len(trades)}
    \cup {"no-such-user"}

UserPatchBodies ==
    {[status |-> "approved"], [status |-> "pending"], [role |-> "coach"],
     [password |-> "student123"]}

TradeIds ==
    ({Get(trades[i], "id") : i \in 1..Len(trades)} \ {Undefined})
    \cup {"no-such-trade"}

TradePatchBodies ==
    {[status |-> "reviewed"], [userId |-> "student-001"],
     [user_id |-> "student-001"], [id |-> "seed-9"],
     [status |-> "reviewed", user_id |-> "student-001"]}

TradeBody == [asset |-> "EURUSD", direction |-> "long", entry |-> 100, sl |-> 99]

TradeBodies ==
    {TradeBody,
     Merge(TradeBody, [user_id |-> "admin-001", userId |-> "admin-001"]),
     [asset |-> "EURUSD", direction |-> "long", entry |-> 100]}

UserQueries ==
    {[status |-> "pending"], [role |-> "student"], [page |-> "1", limit |-> "1"],
     [page |-> "2", limit |-> "2", role |-> "student"]}

TradeQueries ==
    {[status |-> "pending"], [page |-> "1", limit |-> "1"], [limit |-> "2"],
     [page |-> "2", limit |-> "1", status |-> "pending"]}

----------------------------------------------------------------------------
(* The state machine.                                                      *)
(*                                                                         *)
(* The server keeps no session state: a token is a signed copy of the      *)
(* claims and is checked by signature alone.  `tokens` is what clients can *)
(* hold: the claims Login signs in the current state or has signed in an   *)
(* earlier one.  Clients are taken to log in whenever they can, so every   *)
(* step adds the claims that Login signs against the users it leaves.      *)

Init ==
    /\ variant \in {"mock", "sql"}
    /\ users = IF variant = "mock" THEN MockSeedUsers ELSE SqlSeedUsers
    /\ trades = IF variant = "mock" THEN MockSeedTrades ELSE SqlSeedTrades
    /\ tokens = Signable(users)
    /\ registering = {}
    /\ nextUuid = 0
    /\ deleting = {}
    /\ held = 0
    /\ inFlight = [op \in Operations |-> 0]
    /\ now = 1
    /\ writes = 0

\* the handler ran: the stores are as its Result left them (its answer goes
\* to the client and is no state of the server)
Apply(r) ==
    /\ users' = r.users
    /\ trades' = r.trades
    /\ tokens' = IF r.users = users THEN tokens
                 ELSE tokens \cup Signable(r.users)

\* a PATCH or DELETE handler ran
Write(r) ==
    /\ (r.users # users \/ r.trades # trades) => writes < MaxWrites
    /\ writes' = IF r.users # users \/ r.trades # trades THEN writes + 1 ELSE writes
    /\ Apply(r)

\* Register, first half: an early 400, or the request suspends in bcrypt.hash
RegisterBegin(body) ==
    /\ IF registerCheck(body).status # 0
       THEN /\ Apply(registerCheck(body))
            /\ UNCHANGED registering
       ELSE /\ body \notin registering
            /\ Cardinality(registering) < MaxRegistering
            /\ registering' = registering \cup {body}
            /\ UNCHANGED <<users, trades, tokens>>
    /\ UNCHANGED <<variant, inFlight, held, now, nextUuid, deleting, writes>>

\* Register, second half: the hash resolved, the user is inserted
RegisterFinish(body) ==
    /\ body \in registering
    /\ nextUuid < MaxUuid
    /\ registering' = registering \ {body}
    /\ nextUuid' = nextUuid + 1
    /\ Apply(registerInsert(body, Uuids[nextUuid + 1]))
    /\ UNCHANGED <<variant, inFlight, held, now, deleting, writes>>

Login(body) ==
    /\ Apply(login(body))
    /\ UNCHANGED <<variant, inFlight, held, now, registering, nextUuid, deleting, writes>>

ListUsers(tok, query) ==
    /\ Apply(verifyToken(tok, getUsers(tok, query)))
    /\ UNCHANGED <<variant, inFlight, held, now, registering, nextUuid, deleting, writes>>

PatchUser(tok, id, body) ==
    /\ Write(verifyToken(tok, patchUser(tok, id, body)))
    /\ UNCHANGED <<variant, inFlight, held, now, registering, nextUuid, deleting>>

\* DELETE /api/users/:id where the handler runs without suspending between
\* its store operations: the mock branch (mockDb's promises are resolved
\* when awaited), and every request that is denied
DeleteUser(tok, id) ==
    /\ IsMock \/ verifyToken(tok, deleteUser(tok, id)).status \in {401, 403}
    /\ Write(verifyToken(tok, deleteUser(tok, id)))
    /\ UNCHANGED <<variant, inFlight, held, now, registering, nextUuid, deleting>>

\* DELETE /api/users/:id, relational branch, first statement:
\* DELETE FROM trades WHERE user_id = ?
DeleteUserTrades(tok, id) ==
    /\ ~IsMock
    /\ tok.role = "admin"
    /\ id \notin deleting
    /\ Cardinality(deleting) < MaxDeleting
    /\ writes < MaxWrites
    /\ writes' = writes + 1
    /\ deleting' = deleting \cup {id}
    /\ trades' = sqlDelete(trades, "user_id", id)
    /\ held < connectionLimit
    /\ held' = held + 1
    /\ UNCHANGED <<variant, inFlight, now, users, tokens, registering, nextUuid>>

\* DELETE /api/users/:id, relational branch, second statement:
\* DELETE FROM users WHERE id = ?, answered 404 when no row was affected
DeleteUserRow(id) ==
    /\ id \in deleting
    /\ deleting' = deleting \ {id}
    /\ users' = sqlDelete(users, "id", id)
    /\ tokens' = tokens
    /\ held' = held - 1
    /\ UNCHANGED <<variant, inFlight, now, trades, registering, nextUuid, writes>>

ListTrades(tok, query) ==
    /\ Apply(verifyToken(tok, getTrades(tok, query)))
    /\ UNCHANGED <<variant, inFlight, held, now, registering, nextUuid, deleting, writes>>

\* the relational branch draws the trade id with generateId()
CreateTrade(tok, body) ==
    LET r == verifyToken(tok, postTrade(tok, body, Uuids[nextUuid + 1])) IN
    /\ r.status = 201 => Len(trades) < MaxTrades
    /\ (r.status = 201 /\ ~IsMock) => nextUuid < MaxUuid
    /\ nextUuid' = IF r.status = 201 /\ ~IsMock THEN nextUuid + 1 ELSE nextUuid
    /\ Apply(r)
    /\ UNCHANGED <<variant, inFlight, held, now, registering, deleting, writes>>

PatchTrade(tok, id, body) ==
    /\ Write(verifyToken(tok, patchTrade(tok, id, body)))
    /\ UNCHANGED <<variant, inFlight, held, now, registering, nextUuid, deleting>>

DeleteTrade(tok, id) ==
    /\ Write(verifyToken(tok, deleteTrade(tok, id)))
    /\ UNCHANGED <<variant, inFlight, held, now, registering, nextUuid, deleting>>

StorageStats(tok) ==
    /\ Apply(verifyToken(tok, storageStats(tok)))
    /\ UNCHANGED <<variant, inFlight, held, now, registering, nextUuid, deleting, writes>>

\* DELETE /api/users/:id, relational branch: the second statement rejects,
\* the catch answers 500 and the User stays without its Trades
DeleteUserRowFails(id) ==
    /\ id \in deleting
    /\ deleting' = deleting \ {id}
    /\ held' = held - 1
    /\ UNCHANGED <<variant, inFlight, now, users, trades, tokens, registering,
                   nextUuid, writes>>

Next ==
    \/ \E body \in RegisterBodies : RegisterBegin(body)
    \/ \E body \in registering : RegisterFinish(body)
    \/ \E body \in LoginBodies : Login(body)
    \/ \E tok \in Bearers : \E query \in UserQueries : ListUsers(tok, query)
    \/ \E tok \in Bearers : ListUsers(tok, <<>>)
    \/ \E tok \in Bearers : \E id \in UserIds : \E body \in UserPatchBodies :
          PatchUser(tok, id, body)
    \/ \E tok \in Bearers : \E id \in UserIds : PatchUser(tok, id, <<>>)
    \/ \E tok \in Bearers : \E id \in UserIds : DeleteUser(tok, id)
    \/ \E tok \in Bearers : \E id \in UserIds : DeleteUserTrades(tok, id)
    \/ \E id \in deleting : DeleteUserRow(id)
    \/ \E id \in deleting : DeleteUserRowFails(id)
    \/ \E tok \in Bearers : \E query \in TradeQueries : ListTrades(tok, query)
    \/ \E tok \in Bearers : ListTrades(tok, <<>>)
    \/ \E tok \in Bearers : \E body \in TradeBodies : CreateTrade(tok, body)
    \/ \E tok \in Bearers : \E id \in TradeIds : \E body \in TradePatchBodies :
          PatchTrade(tok, id, body)
    \/ \E tok \in Bearers : \E id \in TradeIds : PatchTrade(tok, id, <<>>)
    \/ \E tok \in Bearers : \E id \in TradeIds : DeleteTrade(tok, id)
    \/ \E tok \in Bearers : StorageStats(tok)

Spec == Init /\ [][Next]_vars

\* The relational server over days, with the scheduled image cleanup (the
\* job is scheduled only when the process runs on the pool).  The table
\* starts with two trades that students created on day 0, 1 or 2, with or
\* without charts.
ChartUrls == {Null, "data:image/png;base64,AAAA"}

RetentionRow(id, userId, day, before, after) ==
    [id |-> id, user_id |-> userId, asset |-> "EURUSD", direction |-> "long",
     entry |-> 100, sl |-> 99, status |-> "pending",
     chart_before_url |-> before, chart_after_url |-> after,
     created_at |-> day, updated_at |-> day]

InitRetention ==
    /\ variant = "sql"
    /\ users = SqlSeedUsers
    /\ trades \in {<<RetentionRow("seed-1", "student-001", d1, b1, a1),
                      RetentionRow("seed-2", "student-002", d2, b2, a2)>> :
                        d1 \in 0..2, d2 \in 0..2,
                        b1 \in ChartUrls, a1 \in ChartUrls,
                        b2 \in ChartUrls, a2 \in {Null}}
    /\ tokens = Signable(users)
    /\ registering = {}
    /\ nextUuid = 0
    /\ deleting = {}
    /\ held = 0
    /\ inFlight = [op \in Operations |-> 0]
    /\ now = RetentionDays
    /\ writes = 0

\* a day passes
Tick ==
    /\ now < MaxNow
    /\ now' = now + 1
    /\ UNCHANGED <<variant, inFlight, held, users, trades, tokens, registering, nextUuid,
                   deleting, writes>>

\* the cron callback ran to its end
RetentionJob ==
    /\ ~IsMock
    /\ trades' = retentionJob(trades, now)
    /\ UNCHANGED <<variant, inFlight, held, now, users, tokens, registering, nextUuid,
                   deleting, writes>>

\* the cron callback's UPDATE rejected: the catch logs it, no row changes
RetentionJobFails ==
    /\ ~IsMock
    /\ UNCHANGED vars

NextRetention ==
    \/ Tick
    \/ RetentionJob
    \/ RetentionJobFails
    \/ \E tok \in tokens : \E id \in TradeIds :
          PatchTrade(tok, id, [chart_after_url |-> "data:image/png;base64,AAAA"])

SpecRetention == InitRetention /\ [][NextRetention]_vars

\* The pool of the relational server.
\* pool.getConnection() resolved (waitForConnections: it resolves only while
\* fewer than connectionLimit connections are out)
Acquire(op) ==
    /\ ~IsMock
    /\ held < connectionLimit
    /\ inFlight[op] < MaxInFlight
    /\ held' = held + 1
    /\ inFlight' = [inFlight EXCEPT ![op] = @ + 1]
    /\ UNCHANGED <<variant, now, users, trades, tokens, registering, nextUuid,
                   deleting, writes>>

\* the operation finished
Finish(op, exit) ==
    /\ inFlight[op] > 0
    /\ inFlight' = [inFlight EXCEPT ![op] = @ - 1]
    /\ held' = IF Releases(op, exit) THEN held - 1 ELSE held
    /\ UNCHANGED <<variant, now, users, trades, tokens, registering, nextUuid,
                   deleting, writes>>

InitPool == Init /\ ~IsMock

NextPool ==
    \/ \E op \in Operations : Acquire(op)
    \/ \E op \in Operations : \E exit \in Exits(op) : Finish(op, exit)
    \/ \E tok \in tokens : \E id \in UserIds : DeleteUserTrades(tok, id)
    \/ \E id \in deleting : DeleteUserRow(id)
    \/ \E id \in deleting : DeleteUserRowFails(id)

SpecPool == InitPool /\ [][NextPool]_vars

\* The server under unauthenticated requests alone: Register and Login, the
\* two endpoints without verifyToken, with more registrations than Next sends
AnonRegisterBodies ==
    RegisterBodies
    \cup {[name |-> "User", email |-> e, password |-> p] :
             e \in {"other@example.com", "third@example.com"},
             p \in {"student123", "admin123"}}
    \cup {[name |-> "User", email |-> "other@example.com", password |-> "admin1234",
           role |-> "coach"]}

NextAnon ==
    \/ \E body \in AnonRegisterBodies : RegisterBegin(body)
    \/ \E body \in registering : RegisterFinish(body)
    \/ \E body \in LoginBodies : Login(body)

SpecAnon == Init /\ [][NextAnon]_vars

----------------------------------------------------------------------------
(* Properties.  A handler's answer is a function of the request and of the *)
(* stores, so a property of the answers is stated over the handler applied *)
(* to every request the model sends, in every reachable state.             *)

PasswordsTried == {"student123", "admin123", "admin1234"}

EmailsUnique ==
    \A i, j \in 1..Len(users) : users[i].email = users[j].email => i = j

\* the field under which the variant's handlers keep a trade's owner
OwnerOf(trade) == Get(trade, IF IsMock THEN "userId" ELSE "user_id")

Students == {tok \in tokens : tok.role = "student"}

\* the user objects an answer carries
UserObjects(out) ==
    (IF "user" \in DOMAIN out THEN {out.user} ELSE {})
    \cup (IF "items" \in DOMAIN out
          THEN {out.items[i] : i \in 1..Len(out.items)} ELSE {})

\* the login of user i of the store with a password that matches its hash
LoginOf(i, p) == login([email |-> users[i].email, password |-> p])

\* C1: a Login with the correct password for a User that is pending
\* answers 403 with no token, and for a User whose status is approved it
\* answers 200 with a token.
C1_PendingLoginDenied ==
    \A i \in 1..Len(users) : \A p \in PasswordsTried :
        Compare(p, users[i].password_hash) =>
            /\ users[i].status = "pending" =>
                  /\ LoginOf(i, p).status = 403
                  /\ LoginOf(i, p).out.code = "auth/pending-approval"
                  /\ "token" \notin DOMAIN LoginOf(i, p).out
            /\ users[i].status = "approved" =>
                  /\ LoginOf(i, p).status = 200
                  /\ "token" \in DOMAIN LoginOf(i, p).out

\* C1 holds in every state in which no two Users share an email, which is
\* every state that registrations served one at a time reach.
C1_HoldsWhileEmailsUnique == EmailsUnique => C1_PendingLoginDenied

\* C2: the store never contains two Users with the same email, and a
\* registration for an email that is present is answered 400.
C2_EmailUniqueness ==
    /\ EmailsUnique
    /\ \A body \in RegisterBodies :
          (Truthy(body, "password") /\ findUserByEmail(users, body.email) # 0)
              => registerCheck(body).status = 400

\* C3: no answer of Register, Login, GET /api/users, PATCH or DELETE
\* /api/users/:id carries a User object with a password_hash.
C3_NoPasswordHashReturned ==
    LET clean(r) == \A u \in UserObjects(r.out) : "password_hash" \notin DOMAIN u
    IN  /\ \A body \in RegisterBodies :
              registerCheck(body).status # 0 => clean(registerCheck(body))
        /\ \A body \in registering : clean(registerInsert(body, "uuid-x"))
        /\ \A body \in LoginBodies : clean(login(body))
        /\ \A tok \in Bearers :
              /\ clean(verifyToken(tok, getUsers(tok, <<>>)))
              /\ \A query \in UserQueries : clean(verifyToken(tok, getUsers(tok, query)))
              /\ \A id \in UserIds :
                    /\ clean(verifyToken(tok, deleteUser(tok, id)))
                    /\ clean(verifyToken(tok, patchUser(tok, id, <<>>)))
                    /\ \A body \in UserPatchBodies :
                          clean(verifyToken(tok, patchUser(tok, id, body)))

\* C4: every Trade that GET /api/trades returns to a student is owned by
\* that student, under every combination of page, limit and status.
C4_StudentListsOwnTrades ==
    \A tok \in Students :
        LET own(r) == /\ r.status = 200
                      /\ \A i \in 1..Len(r.out.items) :
                            OwnerOf(r.out.items[i]) = tok.userId
        IN  /\ own(getTrades(tok, <<>>))
            /\ \A query \in TradeQueries : own(getTrades(tok, query))

\* a student, a trade of somebody else and a trade of the student are in
\* the store, and the student's list is not empty
C4_Witness ==
    \E tok \in Students :
        /\ \E i \in 1..Len(trades) : OwnerOf(trades[i]) # tok.userId
        /\ Len(getTrades(tok, <<>>).out.items) > 0
        /\ Len(getTrades(tok, [page |-> "1", limit |-> "1"]).out.items) > 0

\* C5: a student's PATCH or DELETE of an existing Trade of another User is
\* answered 403 and leaves both stores as they were; for an id that is not
\* in the store the answer is 404, and the stores are as they were too.
C5_ForeignTradeUntouched ==
    \A tok \in Students : \A id \in TradeIds :
        LET index == getTradeById(trades, id)
            denied(r, status) ==
                r.status = status /\ r.users = users /\ r.trades = trades
            expected == IF index = 0 THEN 404 ELSE 403
        IN  (index = 0 \/ OwnerOf(trades[index]) # tok.userId) =>
                /\ denied(deleteTrade(tok, id), expected)
                /\ denied(patchTrade(tok, id, <<>>), expected)
                /\ \A body \in TradePatchBodies :
                      denied(patchTrade(tok, id, body), expected)

\* a student and an existing trade of another user, which the student's
\* PATCH would otherwise change
C5_Witness ==
    \E tok \in Students : \E id \in TradeIds :
        /\ getTradeById(trades, id) # 0
        /\ OwnerOf(trades[getTradeById(trades, id)]) # tok.userId
        /\ Get(trades[getTradeById(trades, id)], "status") # "reviewed"
        /\ patchTrade(tok, id, [status |-> "reviewed"]).status = 403

\* C6: a PATCH /api/trades/:id leaves the owner (user_id / userId) and the
\* id of the Trade as they were, whatever the body carries.
C6_OwnershipNeverTransfers ==
    \A tok \in Bearers : \A id \in TradeIds : \A body \in TradePatchBodies :
        LET index == getTradeById(trades, id)
            after == verifyToken(tok, patchTrade(tok, id, body)).trades
        IN  index # 0 =>
                /\ Len(after) = Len(trades)
                /\ Get(after[index], "userId") = Get(trades[index], "userId")
                /\ Get(after[index], "user_id") = Get(trades[index], "user_id")
                /\ Get(after[index], "id") = Get(trades[index], "id")

\* C7: a Trade that POST /api/trades stores has the id of a User that is in
\* the store at that moment as its owner.
C7_TradeOwnerExistsAtCreation ==
    \A tok \in Bearers : \A body \in TradeBodies :
        LET r == verifyToken(tok, postTrade(tok, body, "uuid-x"))
        IN  r.status = 201 =>
                /\ Len(r.trades) = Len(trades) + 1
                /\ hasId(users, OwnerOf(r.trades[Len(r.trades)]))

\* C8: the Trade stored and returned by a student's POST /api/trades has
\* its user_id field set to the userId of the token, whatever the body says.
C8_CreatedTradeUserId ==
    \A tok \in Students : \A body \in TradeBodies :
        LET r == postTrade(tok, body, "uuid-x")
        IN  r.status = 201 =>
                /\ Get(r.trades[Len(r.trades)], "user_id") = tok.userId
                /\ Get(r.out, "user_id") = tok.userId

\* P holds of every answer the handlers behind verifyToken give a request
\* that carries this token
ForAllAnswers(tok, P(_)) ==
    /\ P(getUsers(tok, <<>>))
    /\ \A query \in UserQueries : P(getUsers(tok, query))
    /\ \A id \in UserIds :
          /\ P(deleteUser(tok, id))
          /\ P(patchUser(tok, id, <<>>))
          /\ \A body \in UserPatchBodies : P(patchUser(tok, id, body))
    /\ P(getTrades(tok, <<>>))
    /\ \A query \in TradeQueries : P(getTrades(tok, query))
    /\ \A body \in TradeBodies : P(postTrade(tok, body, "uuid-x"))
    /\ \A id \in TradeIds :
          /\ P(deleteTrade(tok, id))
          /\ P(patchTrade(tok, id, <<>>))
          /\ \A body \in TradePatchBodies : P(patchTrade(tok, id, body))
    /\ P(storageStats(tok))

\* the answer was given before any store operation and before a connection
\* was acquired
ShortCircuited(r) ==
    r.ops = 0 /\ ~r.conn /\ r.users = users /\ r.trades = trades

\* no request with a non-admin token changes or removes a User, and no
\* request with a non-student token creates a Trade
OnlyAdminsWriteUsers ==
    \A tok \in tokens :
        /\ tok.role # "admin" => ForAllAnswers(tok, LAMBDA r : r.users = users)
        /\ tok.role # "student" =>
              ForAllAnswers(tok, LAMBDA r : Len(r.trades) <= Len(trades))

\* a request whose token lacks the role its endpoint asks for is answered
\* 403 before any store operation and before a connection is acquired
RoleDenied ==
    \A tok \in tokens :
        LET denied(r) == r.status = 403 /\ ShortCircuited(r) IN
        /\ tok.role \notin {"admin", "coach"} =>
              /\ denied(getUsers(tok, <<>>))
              /\ \A query \in UserQueries : denied(getUsers(tok, query))
        /\ tok.role # "admin" =>
              /\ denied(storageStats(tok))
              /\ \A id \in UserIds :
                    /\ denied(deleteUser(tok, id))
                    /\ denied(patchUser(tok, id, <<>>))
                    /\ \A body \in UserPatchBodies : denied(patchUser(tok, id, body))
        /\ tok.role # "student" =>
              \A body \in TradeBodies : denied(postTrade(tok, body, "uuid-x"))

\* C9 (as stated): every 403, the role denials and the denial of a student
\* on another User's Trade, is answered before any store operation and
\* before a connection is acquired; so only admins write Users and only
\* students create Trades.
C9_EveryDenyBeforeStore ==
    /\ RoleDenied
    /\ \A tok \in tokens :
          ForAllAnswers(tok, LAMBDA r : r.status = 403 => ShortCircuited(r))
    /\ OnlyAdminsWriteUsers

\* C9 (amended): the role denials are answered before any store operation
\* and before a connection is acquired; the denial of a student on another
\* User's Trade comes after the one read that fetches the Trade (on a
\* connection, in the relational variant) and before any mutation; no 403
\* changes a store; only admins write Users and only students create Trades.
C9_DenyBeforeMutation ==
    /\ RoleDenied
    /\ \A tok \in tokens :
          ForAllAnswers(tok, LAMBDA r :
              r.status = 403 => r.users = users /\ r.trades = trades /\ r.ops <= 1)
    /\ \A tok \in Students : \A id \in TradeIds :
          LET index == getTradeById(trades, id)
              afterRead(r) == /\ r.status = 403 /\ r.ops = 1 /\ r.conn = ~IsMock
                              /\ r.users = users /\ r.trades = trades
          IN  (index # 0 /\ OwnerOf(trades[index]) # tok.userId) =>
                  /\ afterRead(deleteTrade(tok, id))
                  /\ afterRead(patchTrade(tok, id, <<>>))
                  /\ \A body \in TradePatchBodies : afterRead(patchTrade(tok, id, body))
    /\ OnlyAdminsWriteUsers

\* a coach is denied a write of a User, an admin is denied the creation of
\* a Trade, and a student is denied another User's Trade after the read
C9_Witness ==
    /\ \E tok \in tokens :
          /\ tok.role = "coach"
          /\ \E id \in UserIds :
                hasId(users, id) /\ patchUser(tok, id, [status |-> "pending"]).status = 403
    /\ \E tok \in tokens :
          tok.role = "admin" /\ postTrade(tok, TradeBody, "uuid-x").status = 403
    /\ \E tok \in Students : \E id \in TradeIds :
          deleteTrade(tok, id).status = 403 /\ deleteTrade(tok, id).ops = 1

\* C10: a DELETE of a User or of a Trade whose id is not in the store is
\* answered 404 and leaves Users and Trades as they were, the Trades whose
\* owner id is the absent User's id included.
C10_DeleteAbsentChangesNothing ==
    LET absent(r) == r.status = 404 /\ r.users = users /\ r.trades = trades IN
    \A tok \in tokens :
        /\ tok.role = "admin" =>
              \A id \in UserIds : ~hasId(users, id) => absent(deleteUser(tok, id))
        /\ \A id \in TradeIds :
              getTradeById(trades, id) = 0 => absent(deleteTrade(tok, id))

\* C11: when DELETE /api/users/:id removes a User (it answers 200), no
\* Trade owned by that User is in the store once the request has completed,
\* whatever other requests ran meanwhile.
C11_NoTradeOutlivesItsUser ==
    [][\A id \in UserIds :
          (hasId(users, id) /\ ~hasId(users', id)) =>
              \A i \in 1..Len(trades') : OwnerOf(trades'[i]) # id]_vars

\* C12: when one of the trade deletions of DELETE /api/users/:id fails,
\* the handler still deletes the User record.
C12_CascadeBestEffort ==
    \A tok \in tokens : \A id \in UserIds :
        (tok.role = "admin" /\ hasId(users, id)) =>
            \A failAt \in 1..Len(cascadeSteps(id)) :
                ~hasId(deleteUserFailing(tok, id, failAt).users, id)

\* the outcome the claimed order gives a Login request: the User is the one
\* the lookup by email finds
LoginDecided(body) ==
    LET index == findUserByEmail(users, Get(body, "email"))
        r == login(body)
    IN  /\ r.users = users /\ r.trades = trades
        /\ IF index = 0
           THEN r.status = 401 /\ r.out.code = "auth/user-not-found"
           ELSE IF ~Compare(Get(body, "password"), users[index].password_hash)
           THEN r.status = 401 /\ r.out.code = "auth/wrong-password"
           ELSE IF users[index].status = "pending"
           THEN /\ r.status = 403 /\ r.out.code = "auth/pending-approval"
                /\ "token" \notin DOMAIN r.out
                /\ r.out.user = [id |-> users[index].id, email |-> users[index].email,
                                 name |-> users[index].name]
           ELSE /\ r.status = 200
                /\ r.out.token = [userId |-> users[index].id,
                                  email |-> users[index].email,
                                  role |-> users[index].role]

\* C13 (as stated): every Login is answered, in this order, 401
\* auth/user-not-found for an unknown email, 401 auth/wrong-password for a
\* known email with a wrong password, 403 auth/pending-approval with only
\* id, email and name for a pending User, and 200 with a token of the stored
\* id, email and role in every other case; no Login changes the store.
C13_LoginOutcomes == \A body \in LoginBodies : LoginDecided(body)

\* C13 (amended): a Login that lacks the email or the password is answered
\* 400 without a token and without a look at the store; every Login that
\* carries both is decided in the claimed order against the first stored
\* User with that email; no Login changes the store.
C13_LoginOutcomesValidated ==
    \A body \in LoginBodies :
        IF Truthy(body, "email") /\ Truthy(body, "password")
        THEN LoginDecided(body)
        ELSE /\ login(body).status = 400
             /\ login(body).ops = 0
             /\ "token" \notin DOMAIN login(body).out
             /\ login(body).users = users /\ login(body).trades = trades

\* a pending User is in the store, and the Logins the model sends meet all
\* five outcomes, the pending User's own wrong password included
C13_Witness ==
    /\ \A status \in {200, 400, 401, 403} :
          \E body \in LoginBodies : login(body).status = status
    /\ \E body \in LoginBodies : login(body).out = [code |-> "auth/user-not-found"]
    /\ \E i \in 1..Len(users) : \E p \in PasswordsTried :
          /\ users[i].status = "pending"
          /\ ~Compare(p, users[i].password_hash)
          /\ login([email |-> users[i].email, password |-> p]).status = 401

\* the users the store held when the process started serving
SeededUsers == IF IsMock THEN MockSeedUsers ELSE SqlSeedUsers

\* what a Register that is past its checks stores and answers
RegisterStoresPendingStudent ==
    \A body \in registering :
        LET r == registerInsert(body, "uuid-x") IN
        /\ r.status = 200
        /\ "token" \notin DOMAIN r.out
        /\ Len(r.users) = Len(users) + 1
        /\ SubSeq(r.users, 1, Len(users)) = users
        /\ r.users[Len(r.users)].role = "student"
        /\ r.users[Len(r.users)].status = "pending"
        /\ r.users[Len(r.users)].email = body.email

\* no stored User has a role or a status that a registration gave it
NoNewPrivilegedUser ==
    /\ SubSeq(users, 1, Len(SeededUsers)) = SeededUsers
    /\ \A i \in (Len(SeededUsers) + 1)..Len(users) :
          users[i].role = "student" /\ users[i].status = "pending"
    /\ \A body \in AnonRegisterBodies :
          registerCheck(body).status # 0 =>
              /\ "token" \notin DOMAIN registerCheck(body).out
              /\ registerCheck(body).users = users

\* C14 (as stated): a successful Register stores exactly one new User, a
\* pending student whatever the body asks for, and answers without a token;
\* under unauthenticated requests alone no request ever yields a token and no
\* User with role admin or coach appears.
C14_RegisterNeverPrivileged ==
    /\ RegisterStoresPendingStudent
    /\ NoNewPrivilegedUser
    /\ \A body \in LoginBodies : "token" \notin DOMAIN login(body).out

\* C14 (amended): as above for Register; under unauthenticated requests
\* alone the only tokens are those Login signs for Users that were in the
\* store before (the seeded accounts), never one for a User that registered.
C14_RegisteredNeverPrivileged ==
    /\ RegisterStoresPendingStudent
    /\ NoNewPrivilegedUser
    /\ \A body \in LoginBodies :
          "token" \in DOMAIN login(body).out =>
              \E i \in 1..Len(SeededUsers) :
                  /\ SeededUsers[i].id = login(body).out.token.userId
                  /\ SeededUsers[i].role = login(body).out.token.role
    /\ \A i \in (Len(SeededUsers) + 1)..Len(users) : \A p \in PasswordsTried :
          "token" \notin DOMAIN login([email |-> users[i].email, password |-> p]).out

\* the registration that asked for role admin and status approved is
\* stored, another one is past its checks, and the Login with the stored
\* one's password is answered 403
C14_Witness ==
    /\ registering # {}
    /\ \E i \in (Len(SeededUsers) + 1)..Len(users) :
          /\ users[i].email = PrivilegedRegister.email
          /\ users[i].password_hash = Hash(PrivilegedRegister.password)
          /\ login([email |-> users[i].email,
                    password |-> PrivilegedRegister.password]).status = 403

\* the page numbers and limits the windows are checked for, as the query
\* string carries them
PageParams == {"1", "2", "3"}

\* the filters a list request can carry besides page and limit
UserFilters == {[status |-> "pending"], [role |-> "student"]}
TradeFilters == {[status |-> "pending"]}

\* the answer is the window of page p with limit L over the list `full`
IsWindow(out, full, p, L) ==
    LET T == Len(full)
        first == (p - 1) * L + 1
        last == IF p * L < T THEN p * L ELSE T
    IN  /\ out.paginated
        /\ Len(out.items) = (IF last >= first THEN last - first + 1 ELSE 0)
        /\ \A k \in 1..Len(out.items) : out.items[k] = full[first + k - 1]
        /\ out.pagination.page = p
        /\ out.pagination.limit = L
        /\ out.pagination.total = T
        /\ out.pagination.totalPages * L >= T
        /\ (out.pagination.totalPages - 1) * L < T

\* the example of the specification: 120 items, ?page=2&limit=50
ExamplePage == ListBody([n \in 1..120 |-> n], [page |-> "2", limit |-> "50"])

\* C15: with page p >= 1 and limit L >= 1 the paginated answer of GET
\* /api/users and GET /api/trades is the items (p-1)*L+1 .. min(p*L, T) of
\* the filtered list, in its order, with page p, limit L, total T and
\* totalPages = ceil(T / L); with neither page nor limit it is the bare
\* full list.
C15_PaginationWindow ==
    /\ IsWindow(ExamplePage, [n \in 1..120 |-> n], 2, 50)
    /\ ExamplePage.items = [k \in 1..50 |-> 50 + k]
    /\ ExamplePage.pagination.totalPages = 3
    /\ \A tok \in tokens : \A page \in PageParams : \A limit \in PageParams :
        LET window == [page |-> page, limit |-> limit]
            p == ParseInt(page)
            L == ParseInt(limit)
        IN  /\ getTrades(tok, <<>>).out = [paginated |-> FALSE,
                                           items |-> tradesListed(tok, <<>>)]
            /\ IsWindow(getTrades(tok, window).out, tradesListed(tok, <<>>), p, L)
            /\ \A f \in TradeFilters :
                  /\ ~getTrades(tok, f).out.paginated
                  /\ IsWindow(getTrades(tok, Merge(f, window)).out,
                              getTrades(tok, f).out.items, p, L)
            /\ tok.role \in {"admin", "coach"} =>
                  /\ getUsers(tok, <<>>).out = [paginated |-> FALSE,
                                                items |-> usersListed(<<>>)]
                  /\ IsWindow(getUsers(tok, window).out, usersListed(<<>>), p, L)
                  /\ \A f \in UserFilters :
                        /\ ~getUsers(tok, f).out.paginated
                        /\ IsWindow(getUsers(tok, Merge(f, window)).out,
                                    getUsers(tok, f).out.items, p, L)

\* five Users are listed: page 2 of limit 2 holds the third and the fourth,
\* page 3 the fifth alone, of three pages
C15_Witness ==
    \E tok \in tokens :
        /\ tok.role = "admin"
        /\ Len(usersListed(<<>>)) = 5
        /\ Len(getUsers(tok, [page |-> "2", limit |-> "2"]).out.items) = 2
        /\ Len(getUsers(tok, [page |-> "3", limit |-> "2"]).out.items) = 1
        /\ getUsers(tok, [page |-> "3", limit |-> "2"]).out.pagination.totalPages = 3
        /\ Len(getTrades(tok, [page |-> "2", limit |-> "1"]).out.items) = 1

\* C16: one run of the image cleanup leaves every Trade older than 7 days
\* that had a chart with both chart fields null and updated_at the day of
\* the run; every Trade younger than 7 days and every Trade without charts
\* is as it was; no other field of any Trade changes.
C16_RetentionJobEffect ==
    LET after == retentionJob(trades, now) IN
    /\ Len(after) = Len(trades)
    /\ \A i \in 1..Len(trades) :
          LET age == now - trades[i].created_at
              charted == \/ trades[i].chart_before_url # Null
                         \/ trades[i].chart_after_url # Null
          IN  /\ (age > RetentionDays /\ charted) =>
                    /\ after[i].chart_before_url = Null
                    /\ after[i].chart_after_url = Null
                    /\ after[i].updated_at = now
              /\ (age < RetentionDays \/ ~charted) => after[i] = trades[i]
              /\ DOMAIN after[i] = DOMAIN trades[i]
              /\ \A k \in DOMAIN trades[i] \
                          {"chart_before_url", "chart_after_url", "updated_at"} :
                    after[i][k] = trades[i][k]

\* a run has cleaned a Trade that is 8 days old or more, and has left the
\* chart of a Trade that is 6 days old
C16_Witness ==
    /\ \E i \in 1..Len(trades) :
          /\ now - trades[i].created_at > RetentionDays
          /\ trades[i].chart_before_url = Null /\ trades[i].chart_after_url = Null
          /\ trades[i].updated_at - trades[i].created_at >= RetentionDays
    /\ \E i \in 1..Len(trades) :
          /\ now - trades[i].created_at = RetentionDays - 1
          /\ trades[i].chart_before_url # Null
          /\ retentionJob(trades, now)[i] = trades[i]

\* C17: whatever the request, when the pool refuses a connection or a
\* statement fails, the client gets a response with a status and a JSON
\* error body.
AllAnswered(outcomes) == \A o \in outcomes : o.responded /\ o.json

C17_EveryFaultAnswered ==
    /\ \A body \in LoginBodies :
          /\ AllAnswered(poolFails(login(body), FALSE))
          /\ AllAnswered(queryFails(login(body)))
    /\ \A tok \in Bearers :
          /\ AllAnswered(poolFails(verifyToken(tok, getTrades(tok, <<>>)), TRUE))
          /\ AllAnswered(queryFails(verifyToken(tok, getTrades(tok, <<>>))))
          /\ AllAnswered(poolFails(verifyToken(tok, getUsers(tok, <<>>)), FALSE))
          /\ AllAnswered(queryFails(verifyToken(tok, getUsers(tok, <<>>))))
          /\ AllAnswered(poolFails(verifyToken(tok, storageStats(tok)), FALSE))
          /\ \A id \in TradeIds :
                AllAnswered(poolFails(verifyToken(tok, deleteTrade(tok, id)), FALSE))
          /\ \A id \in UserIds :
                AllAnswered(poolFails(verifyToken(tok, deleteUser(tok, id)), FALSE))

\* C18: deleteUser(id) and deleteTrade(id), of dbOps and of MockDatabase,
\* return true exactly when a record with that id existed, and then one
\* record is gone; they return false otherwise, and then the store is as it
\* was.
DeleteReports(arr, id, r) ==
    /\ r.returned = hasId(arr, id)
    /\ r.returned => Len(r.left) = Len(arr) - 1
    /\ ~r.returned => r.left = arr

C18_DeleteReturnsWhetherRemoved ==
    /\ \A id \in UserIds :
          /\ IsMock => DeleteReports(users, id, mockDelete(users, id))
          /\ DeleteReports(users, id, dbOpsDelete(users, id))
    /\ \A id \in TradeIds :
          /\ IsMock => DeleteReports(trades, id, mockDelete(trades, id))
          /\ DeleteReports(trades, id, dbOpsDelete(trades, id))

\* C19: a Trade that POST /api/trades has created is stored with an id that
\* no other Trade has and with created_at and updated_at, and is the Trade
\* that a lookup by that id finds.
C19_CreatedTradeHasIdentity ==
    nextUuid < MaxUuid =>
        \A tok \in tokens : \A body \in TradeBodies :
            LET r == postTrade(tok, body, Uuids[nextUuid + 1])
                created == r.trades[Len(r.trades)]
            IN  r.status = 201 =>
                    /\ Len(r.trades) = Len(trades) + 1
                    /\ "id" \in DOMAIN created
                    /\ ~hasId(trades, created.id)
                    /\ "created_at" \in DOMAIN created
                    /\ "updated_at" \in DOMAIN created
                    /\ getTradeById(r.trades, created.id) = Len(r.trades)

\* C20: updating a User changes exactly the fields supplied, leaves every
\* other field (id and created_at among them) and every other User as they
\* were, and sets updated_at to the time of the update; for an id that no
\* User has, the answer is not-found and nothing changes.  Both for
\* PATCH /api/users/:id and for dbOps.updateUser.
UpdatedExactly(before, after, id, updates) ==
    /\ Len(after) = Len(before)
    /\ \A i \in 1..Len(before) :
          IF before[i].id # id THEN after[i] = before[i]
          ELSE /\ DOMAIN after[i] = DOMAIN before[i] \cup DOMAIN updates
               /\ \A k \in DOMAIN updates : after[i][k] = updates[k]
               /\ \A k \in DOMAIN before[i] \ (DOMAIN updates \cup {"updated_at"}) :
                     after[i][k] = before[i][k]
               /\ after[i].updated_at = now

C20_UpdateUserExactFields ==
    \A id \in UserIds : \A body \in UserPatchBodies :
        /\ \A tok \in tokens :
              LET r == patchUser(tok, id, body) IN
              (tok.role = "admin" /\ r.status # 400) =>
                  IF hasId(users, id)
                  THEN /\ r.status = 200
                       /\ UpdatedExactly(users, r.users, id, userUpdates(body))
                  ELSE r.status = 404 /\ r.users = users
        /\ LET u == dbOpsUpdateUser(users, id, Pick(body, {"role", "status"})) IN
              IF hasId(users, id)
              THEN /\ u.found
                   /\ UpdatedExactly(users, u.left, id, Pick(body, {"role", "status"}))
              ELSE ~u.found /\ u.left = users

\* C21: a Trade update in the relational variant, by PATCH /api/trades/:id
\* or by dbOps.updateTrade, leaves id, user_id and created_at of every Trade
\* as they were, writes each remaining field of the payload to its storage
\* column, and writes nothing when the payload holds immutable keys only.
UpdatePayloads ==
    {[status |-> "reviewed"], [plannedR |-> 2, actualR |-> 1],
     [displayUnit |-> "pips", reviewedBy |-> "admin-001"],
     [chartBeforeUrl |-> "data:image/png;base64,AAAA"],
     [user_id |-> "student-001"], [userId |-> "student-001"],
     [id |-> "seed-9", createdAt |-> 5, date |-> 5],
     [created_at |-> 5, updated_at |-> 5, updatedAt |-> 5],
     [status |-> "reviewed", user_id |-> "student-001", id |-> "seed-9"]}

ImmutableKept(before, after) ==
    /\ Len(after) = Len(before)
    /\ \A i \in 1..Len(before) :
          /\ after[i].id = before[i].id
          /\ after[i].user_id = before[i].user_id
          /\ after[i].created_at = before[i].created_at

WrittenToColumns(before, after, id, payload) ==
    \A i \in 1..Len(before) :
        before[i].id = id =>
            \A k \in DOMAIN payload \ blockedFields :
                /\ columnMap(k) \in DOMAIN after[i]
                /\ after[i][columnMap(k)] = payload[k]

C21_ImmutableTradeFields ==
    ~IsMock =>
        \A id \in TradeIds : \A payload \in UpdatePayloads :
            /\ \A tok \in tokens :
                  LET r == patchTrade(tok, id, payload) IN
                  /\ ImmutableKept(trades, r.trades)
                  /\ r.status = 200 =>
                        WrittenToColumns(trades, r.trades, id, payload)
                  /\ DOMAIN payload \subseteq blockedFields => r.trades = trades
            /\ LET u == dbOpsUpdateTrade(trades, id, payload) IN
                  /\ ImmutableKept(trades, u.left)
                  /\ ~u.failed /\ Len(u.left) = Len(trades) /\
                        WrittenToColumns(trades, u.left, id, payload)
                  /\ DOMAIN payload \subseteq blockedFields => u.left = trades

\* C22: once every operation that took a connection has finished, no
\* connection is out of the pool; and never more than connectionLimit are.
C22_ConnectionsReleased ==
    /\ held <= connectionLimit
    /\ ((\A op \in Operations : inFlight[op] = 0) /\ deleting = {}) => held = 0

\* C23: against a table that lacks some columns, a Trade insert or update
\* whose statement fails for a missing column is re-issued once without
\* reviewed_by, chart_before_url and chart_after_url; no operation issues
\* more than two write statements; a failing second statement is an error;
\* and when nothing but optional columns was asked for, the operation fails
\* with "no fields to update" after the first statement.
MissingColumns == SUBSET {"reviewed_by", "chart_after_url", "planned_r"}

RetriedOnce(fields, stamps, missing, w) ==
    LET stripped == fields \ OptionalColumns IN
    /\ w.statements <= 2
    /\ IF (fields \cup stamps) \cap missing = {}
       THEN w.statements = 1 /\ ~w.failed /\ w.written = fields \cup stamps
       ELSE IF stripped = {}
       THEN w.statements = 1 /\ w.failed /\ w.noFields
       ELSE /\ w.statements = 2
            /\ ~w.noFields
            /\ w.failed = ((stripped \cup stamps) \cap missing # {})
            /\ ~w.failed => w.written = stripped \cup stamps

C23_SchemaDriftRetry ==
    ~IsMock =>
        \A missing \in MissingColumns :
            /\ RetriedOnce(TradeColumns \ {"id", "user_id", "created_at", "updated_at"},
                           {"id", "user_id", "created_at", "updated_at"},
                           missing, postTradeWrite(missing))
            /\ \A payload \in UpdatePayloads :
                  DOMAIN sqlTradeSets(payload) # {} =>
                      /\ RetriedOnce(DOMAIN sqlTradeSets(payload), {"updated_at"},
                                     missing, patchTradeWrite(payload, missing))
                      /\ RetriedOnce(DOMAIN sqlTradeSets(payload), {"updated_at"},
                                     missing,
                                     dbOpsWrite(DOMAIN sqlTradeSets(payload),
                                                {"updated_at"}, missing))
            /\ RetriedOnce(DOMAIN sqlTradeRow(NoToken, TradeBody, "t"), {}, missing,
                           dbOpsWrite(DOMAIN sqlTradeRow(NoToken, TradeBody, "t"),
                                      {}, missing))

\* C24: every stored User has a role among admin, coach, student and a
\* status among pending, approved, active, and every stored Trade a status
\* among pending, reviewed, also after any admin PATCH /api/users/:id and any
\* POST or PATCH /api/trades, whatever role and status the body carries.
Roles == {"admin", "coach", "student"}

UserStatuses == {"pending", "approved", "active"}

TradeStatuses == {"pending", "reviewed"}

UsersInDomain(us) ==
    \A i \in 1..Len(us) : us[i].role \in Roles /\ us[i].status \in UserStatuses

TradesInDomain(ts) ==
    \A i \in 1..Len(ts) : Get(ts[i], "status") \in TradeStatuses

C24_RoleAndStatusDomains ==
    /\ UsersInDomain(users)
    /\ TradesInDomain(trades)
    /\ \A tok \in tokens :
          /\ \A id \in UserIds :
                \A body \in UserPatchBodies \cup
                            {[role |-> "owner"], [status |-> "banned"]} :
                    UsersInDomain(patchUser(tok, id, body).users)
          /\ \A id \in TradeIds :
                \A body \in TradePatchBodies \cup {[status |-> "closed"]} :
                    TradesInDomain(patchTrade(tok, id, body).trades)
          /\ nextUuid < MaxUuid =>
                \A body \in TradeBodies \cup
                            {Merge(TradeBody, [status |-> "closed"])} :
                    TradesInDomain(postTrade(tok, body, Uuids[nextUuid + 1]).trades)

\* the WHERE clause of the cleanup, on day `at`
Eligible(row, at) ==
    /\ row.created_at <= at - RetentionDays
    /\ (row.chart_before_url # Null \/ row.chart_after_url # Null)

\* C25 as stated: after one run of the cleanup, a second run with no request
\* in between, on the same or on a later day, changes no Trade at all.
C25_SecondRunChangesNothing ==
    LET once == retentionJob(trades, now) IN
    \A later \in now..MaxNow : retentionJob(once, later) = once

\* C25: after one run of the cleanup no Trade is eligible any more, so a
\* second run at the same time changes no Trade, not even updated_at; and a
\* run, the first or a later one, changes only Trades that are eligible at
\* the time of that run.
C25_RetentionIdempotent ==
    LET once == retentionJob(trades, now) IN
    /\ \A i \in 1..Len(once) : ~Eligible(once[i], now)
    /\ retentionJob(once, now) = once
    /\ \A i \in 1..Len(trades) : once[i] # trades[i] => Eligible(trades[i], now)
    /\ \A later \in now..MaxNow :
          \A i \in 1..Len(once) :
              retentionJob(once, later)[i] # once[i] => Eligible(once[i], later)

\* the cleanup has run today and cleaned a Trade, a second run today would
\* change nothing, and a charted Trade is still too young
C25_Witness ==
    /\ \E i \in 1..Len(trades) :
          /\ trades[i].updated_at = now
          /\ trades[i].created_at <= now - RetentionDays
          /\ trades[i].chart_before_url = Null /\ trades[i].chart_after_url = Null
    /\ retentionJob(trades, now) = trades
    /\ \E i \in 1..Len(trades) :
          trades[i].chart_before_url # Null /\ ~Eligible(trades[i], now)

====
